---------------------------- MODULE Spec2Model ----------------------------
(***************************************************************************)
(* compose2kube (src/main.go): one pass over the services of a compose     *)
(* project, writing one Kubernetes manifest file per service.              *)
(*                                                                         *)
(* Texts the program takes apart (service names, environment entries,      *)
(* port entries, the node-selector flag) are sequences of one-character    *)
(* strings, so that strings.Split, strings.Contains, strings.ToLower and   *)
(* strconv.ParseInt are computed character by character.  Texts the        *)
(* program only compares or copies (the restart token, the pull-policy     *)
(* flag, the image) are TLA+ strings.  A Go map is a set of <<key, value>> *)
(* pairs with at most one pair per key; a nil pointer is <<>> and a        *)
(* pointer to v is <<v>>.  yaml.Marshal and ioutil.WriteFile belong to     *)
(* libraries: a file's content is the marshalled object itself, and both   *)
(* calls are taken to succeed.                                             *)
(***************************************************************************)
EXTENDS Integers, Sequences, FiniteSets, TLC

VARIABLES
    configs,       \* p.Configs: the parsed services, a map from name to service
    pullPolicy,    \* the -pull-policy flag
    nodeSelector,  \* the -node-selector flag
    run,           \* one execution of main on these inputs
    rerun          \* a second execution of main on the same inputs

vars == <<configs, pullPolicy, nodeSelector, run, rerun>>

---------------------------------------------------------------------------
(* Bounds of the model *)

\* The most services a compose project holds.
MaxServices == 2

---------------------------------------------------------------------------
(* Characters and the library functions on strings *)

UpperCase == <<"A","B","C","D","E","F","G","H","I","J","K","L","M",
               "N","O","P","Q","R","S","T","U","V","W","X","Y","Z">>

LowerCase == <<"a","b","c","d","e","f","g","h","i","j","k","l","m",
               "n","o","p","q","r","s","t","u","v","w","x","y","z">>

Digits == <<"0","1","2","3","4","5","6","7","8","9">>

ToLowerChar(c) ==
    IF \E i \in DOMAIN UpperCase : UpperCase[i] = c
    THEN LowerCase[CHOOSE i \in DOMAIN UpperCase : UpperCase[i] = c]
    ELSE c

\* strings.ToLower
ToLower(s) == [i \in DOMAIN s |-> ToLowerChar(s[i])]

\* strings.Contains(s, sep) for a one-character sep
Contains(s, sep) == \E i \in DOMAIN s : s[i] = sep

\* strings.Split(s, sep) for a one-character sep: the pieces between every
\* occurrence of sep, so n occurrences give n + 1 pieces and "" gives [""].
RECURSIVE Split(_, _)
Split(s, sep) ==
    IF ~Contains(s, sep)
    THEN <<s>>
    ELSE LET i == CHOOSE k \in DOMAIN s :
                      s[k] = sep /\ \A j \in 1..(k - 1) : s[j] # sep
         IN  <<SubSeq(s, 1, i - 1)>> \o Split(SubSeq(s, i + 1, Len(s)), sep)

IsDigit(c) == \E i \in DOMAIN Digits : Digits[i] = c

DigitValue(c) == (CHOOSE i \in DOMAIN Digits : Digits[i] = c) - 1

\* The bitSize argument the program passes to strconv.ParseInt.
BitSize == 32

\* The least value of a signed integer of BitSize bits.
MinInt == 0 - 2 ^ (BitSize - 2) - 2 ^ (BitSize - 2)

\* The digits ds from position i on, appended to the decimal number whose
\* negation is m; range when the number would pass below limit.  (The
\* number is kept negated because integers here are BitSize bits wide
\* themselves: the negative range holds every magnitude ParseInt accepts.)
RECURSIVE Accumulate(_, _, _, _)
Accumulate(ds, i, m, limit) ==
    IF i > Len(ds)
    THEN [range |-> FALSE, m |-> m]
    ELSE LET d == DigitValue(ds[i])
         IN  IF m < (limit + d + 9) \div 10
             THEN [range |-> TRUE, m |-> 0]
             ELSE Accumulate(ds, i + 1, 10 * m - d, limit)

\* strconv.ParseInt(s, 10, BitSize): an optional sign, then one or more
\* decimal digits, and the value must fit a signed BitSize-bit integer.
ParseInt(s) ==
    LET signed == s # <<>> /\ s[1] \in {"+", "-"}
        neg    == s # <<>> /\ s[1] = "-"
        ds     == IF signed THEN Tail(s) ELSE s
        syntax == ds = <<>> \/ \E i \in DOMAIN ds : ~IsDigit(ds[i])
        acc    == Accumulate(ds, 1, 0, IF neg THEN MinInt ELSE MinInt + 1)
    IN  IF syntax \/ acc.range
        THEN [err |-> TRUE, n |-> 0]
        ELSE [err |-> FALSE, n |-> IF neg THEN acc.m ELSE 0 - acc.m]

\* m[k] = v on a Go map
MapPut(m, k, v) == {p \in m : p[1] # k} \cup {<<k, v>>}

MapKeys(m) == {p[1] : p \in m}


---------------------------------------------------------------------------
(* The Kubernetes objects the program builds *)

\* resource.NewMilliQuantity(value, format): value thousandths of a unit
NewMilliQuantity(value, format) ==
    [value |-> value, scale |-> -3, format |-> format]

\* resource.NewQuantity(value, format): value whole units
NewQuantity(value, format) ==
    [value |-> value, scale |-> 0, format |-> format]

\* ResourceLimits with the test of CPUShares left out.
ResourceLimitsAlwaysCpu(service) ==
    LET cpu == {<<"cpu", NewMilliQuantity(service.cpuShares, "BinarySI")>>}
    IN  IF service.memLimit # 0
        THEN MapPut(cpu, "memory", NewQuantity(service.memLimit, "decimalSI"))
        ELSE cpu

\* The limits a service gets: cpu for a nonzero CPUShares, memory for a
\* nonzero MemLimit.
ResourceLimits(service) ==
    LET empty == {}
        cpu   == IF service.cpuShares # 0
                 THEN MapPut(empty, "cpu",
                             NewMilliQuantity(service.cpuShares, "BinarySI"))
                 ELSE empty
    IN  IF service.memLimit # 0
        THEN MapPut(cpu, "memory", NewQuantity(service.memLimit, "decimalSI"))
        ELSE cpu

\* The security context of a privileged service; nil otherwise.
SecurityContextOf(service) ==
    IF service.privileged = TRUE
    THEN <<[capabilities |-> <<>>, privileged |-> TRUE]>>
    ELSE <<>>

\* PullPolicySwitch whose default case falls back to IfNotPresent.
PullPolicySwitchFallsBack(flag) ==
    IF flag # ""
    THEN CASE flag = "Always" -> [fatal |-> FALSE, policy |-> "Always"]
           [] flag = "Never"  -> [fatal |-> FALSE, policy |-> "Never"]
           [] OTHER           -> [fatal |-> FALSE, policy |-> "IfNotPresent"]
    ELSE [fatal |-> FALSE, policy |-> ""]

\* The switch on the -pull-policy flag.  An empty flag leaves the
\* container's ImagePullPolicy unset (""); an unknown one is fatal.
PullPolicySwitch(flag) ==
    IF flag # ""
    THEN CASE flag \in {"", "IfNotPresent"} -> [fatal |-> FALSE, policy |-> "IfNotPresent"]
           [] flag = "Always"               -> [fatal |-> FALSE, policy |-> "Always"]
           [] flag = "Never"                -> [fatal |-> FALSE, policy |-> "Never"]
           [] OTHER                         -> [fatal |-> TRUE, policy |-> ""]
    ELSE [fatal |-> FALSE, policy |-> ""]

\* The loop over the pairs of the -node-selector flag: z[1] of a pair
\* that holds no "=" is an index out of range, and the program panics.
RECURSIVE NodeSelectorLoop(_, _, _)
NodeSelectorLoop(ss, i, m) ==
    IF i > Len(ss)
    THEN [panic |-> FALSE, m |-> m]
    ELSE LET z == Split(ss[i], "=")
         IN  IF Len(z) < 2
             THEN [panic |-> TRUE, m |-> m]
             ELSE NodeSelectorLoop(ss, i + 1, MapPut(m, z[1], z[2]))

\* pod.NodeSelector: nil (no pairs) for an empty flag.
NodeSelectorMap(flag) ==
    IF flag # <<>>
    THEN NodeSelectorLoop(Split(flag, ";"), 1, {})
    ELSE [panic |-> FALSE, m |-> {}]

\* One environment entry: the first two pieces of the entry split at every
\* "="; an entry that holds no "=" has no second piece, and the program
\* panics with an index out of range.
EnvVarOf(envs) ==
    LET value == Split(envs, "=")
    IN  IF Len(value) < 2
        THEN [panic |-> TRUE, name |-> value[1], value |-> <<>>]
        ELSE [panic |-> FALSE, name |-> value[1], value |-> value[2]]

\* The loop over service.Environment.Slice()
RECURSIVE EnvironmentLoop(_, _, _)
EnvironmentLoop(entries, i, environment) ==
    IF i > Len(entries)
    THEN [panic |-> FALSE, environment |-> environment]
    ELSE LET e == EnvVarOf(entries[i])
         IN  IF e.panic
             THEN [panic |-> TRUE, environment |-> environment]
             ELSE EnvironmentLoop(entries, i + 1,
                     Append(environment, [name |-> e.name, value |-> e.value]))

\* One port entry: of a mapped port ("a:b...") the second piece, else the
\* entry itself, parsed as a decimal integer of BitSize bits.
ContainerPortOf(port) ==
    LET text == IF Contains(port, ":") THEN Split(port, ":")[2] ELSE port
        p    == ParseInt(text)
    IN  [fatal |-> p.err, containerPort |-> p.n]

\* The loop over service.Ports
RECURSIVE PortsLoop(_, _, _)
PortsLoop(entries, i, ports) ==
    IF i > Len(entries)
    THEN [fatal |-> FALSE, ports |-> ports]
    ELSE LET p == ContainerPortOf(entries[i])
         IN  IF p.fatal
             THEN [fatal |-> TRUE, ports |-> ports]
             ELSE PortsLoop(entries, i + 1,
                     Append(ports, [containerPort |-> p.containerPort]))

\* RestartSwitch whose default case falls through to the replication
\* controller.
RestartSwitchDefaultsToRc(restart) ==
    CASE restart \in {"no", "false"} ->
            [fatal |-> FALSE, objType |-> <<"p","o","d">>,
             restartPolicy |-> "Never", wrapper |-> "job"]
      [] restart = "on-failure" ->
            [fatal |-> FALSE, objType |-> <<"j","o","b">>,
             restartPolicy |-> "OnFailure", wrapper |-> "job"]
      [] OTHER ->
            [fatal |-> FALSE, objType |-> <<"r","c">>,
             restartPolicy |-> "Always", wrapper |-> "replicationController"]

\* The switch on service.Restart: the file's type tag, the pod's restart
\* policy, and the function that wraps the pod.
RestartSwitch(restart) ==
    CASE restart \in {"", "always"} ->
            [fatal |-> FALSE, objType |-> <<"r","c">>,
             restartPolicy |-> "Always", wrapper |-> "replicationController"]
      [] restart \in {"no", "false"} ->
            [fatal |-> FALSE, objType |-> <<"p","o","d">>,
             restartPolicy |-> "Never", wrapper |-> "job"]
      [] restart = "on-failure" ->
            [fatal |-> FALSE, objType |-> <<"j","o","b">>,
             restartPolicy |-> "OnFailure", wrapper |-> "job"]
      [] OTHER ->
            [fatal |-> TRUE, objType |-> <<>>,
             restartPolicy |-> "", wrapper |-> ""]

\* func job
job(name, pod) ==
    [kind       |-> "Job",
     apiVersion |-> "batch/v1",
     name       |-> ToLower(name),
     template   |-> [labels |-> {<<"service", name>>}, spec |-> pod]]

\* func replicationController: Spec.Selector is not set and stays nil.
replicationController(name, pod) ==
    [kind       |-> "ReplicationController",
     apiVersion |-> "v1",
     name       |-> ToLower(name),
     replicas   |-> 1,
     selector   |-> {},
     template   |-> [labels |-> {<<"service", name>>}, spec |-> pod]]

\* The -output-dir flag, at its default.
OutputDir == <<"o","u","t","p","u","t">>

\* OutputFileName without the type tag: fmt.Sprintf("%s.yaml", name)
OutputFileNameWithoutType(name, objType) ==
    name \o <<".","y","a","m","l">>

\* OutputFileName without the service: fmt.Sprintf("%s.yaml", objType)
OutputFileNameWithoutService(name, objType) ==
    objType \o <<".","y","a","m","l">>

\* fmt.Sprintf("%s-%s.yaml", name, objType)
OutputFileName(name, objType) ==
    name \o <<"-">> \o objType \o <<".","y","a","m","l">>

\* filepath.Join(outputDir, outputFileName)
OutputFilePath(name, objType) ==
    OutputDir \o <<"/">> \o OutputFileName(name, objType)

\* One pass of the loop body for the service called name, up to the call
\* of ioutil.WriteFile: the checks run in the order of the code, and the
\* first that fails ends the process.
LoopBody(name, service, ppFlag, nsFlag) ==
    LET pull == PullPolicySwitch(ppFlag)
        sel  == NodeSelectorMap(nsFlag)
        env  == EnvironmentLoop(service.environment, 1, <<>>)
        prt  == PortsLoop(service.ports, 1, <<>>)
        rst  == RestartSwitch(service.restart)
        pod  == [containers |->
                    <<[name            |-> ToLower(name),
                       image           |-> service.image,
                       args            |-> service.command,
                       limits          |-> ResourceLimits(service),
                       securityContext |-> SecurityContextOf(service),
                       imagePullPolicy |-> pull.policy,
                       env             |-> env.environment,
                       ports           |-> prt.ports]>>,
                 nodeSelector  |-> sel.m,
                 restartPolicy |-> rst.restartPolicy]
        stop(how, msg) == [outcome |-> how, msg |-> msg,
                           path |-> <<>>, data |-> <<>>]
    IN  IF pull.fatal THEN stop("fatal", "Unknown pull policy")
        ELSE IF sel.panic THEN stop("panic", "index out of range")
        ELSE IF env.panic THEN stop("panic", "index out of range")
        ELSE IF prt.fatal THEN stop("fatal", "Invalid container port")
        ELSE IF rst.fatal THEN stop("fatal", "Unknown restart policy")
        ELSE [outcome |-> "write", msg |-> "",
              path |-> OutputFilePath(name, rst.objType),
              data |-> IF rst.wrapper = "replicationController"
                       THEN replicationController(name, pod)
                       ELSE job(name, pod)]

---------------------------------------------------------------------------
(* An execution of main *)

\* Fatalf that only logs (log.Printf): the process goes on.
FatalfOnlyLogs(r, name, msg) ==
    [r EXCEPT !.msg = msg, !.failed = {name}]

\* log.Fatalf: the message is logged and the process exits with status 1.
Fatalf(r, name, msg) ==
    [r EXCEPT !.status = "exit1", !.msg = msg, !.failed = {name}]

\* A run-time panic: the process ends with status 2.
Panic(r, name, msg) ==
    [r EXCEPT !.status = "exit2", !.msg = msg, !.failed = {name}]

\* ioutil.WriteFile(path, data) creates or replaces the file; the path is
\* then printed.
WriteFile(r, path, data) ==
    [r EXCEPT !.files  = (path :> data) @@ r.files,
              !.stdout = Append(r.stdout, path)]

\* The range loop takes the next service, in no fixed order, and runs the
\* loop body on it.
Iterate(r, name) ==
    LET b    == LoopBody(name, configs[name], pullPolicy, nodeSelector)
        next == [r EXCEPT !.pending = r.pending \ {name}]
    IN  CASE b.outcome = "fatal" -> Fatalf(next, name, b.msg)
          [] b.outcome = "panic" -> Panic(next, name, b.msg)
          [] OTHER               -> WriteFile(next, b.path, b.data)

\* The loop has visited every service and main returns.
Return(r) == [r EXCEPT !.status = "exit0"]

\* The process at the start of the loop.
Started(services) ==
    [pending |-> DOMAIN services,
     files   |-> [p \in {} |-> <<>>],
     stdout  |-> <<>>,
     status  |-> "running",
     msg     |-> "",
     failed  |-> {}]


---------------------------------------------------------------------------
(* The inputs the model draws from *)

NameList == << <<"W","e","b">>, <<"d","b">>, <<"c","a","c","h","e">> >>

ServiceNames == {NameList[i] : i \in 1..MaxServices}

\* Restart tokens: the five the switch knows and one it does not.
RestartTokens == {"", "always", "no", "false", "on-failure", "unless-stopped"}

\* "FOO=bar", "A=B=C", "NOEQUALS"
EnvFooBar == <<"F","O","O","=","b","a","r">>
EnvABC == <<"A","=","B","=","C">>
EnvNoEquals == <<"N","O","E","Q","U","A","L","S">>

EnvLists ==
    {<<>>, <<EnvFooBar>>, <<EnvABC>>, <<EnvNoEquals>>,
     <<EnvFooBar, EnvABC>>, <<EnvFooBar, EnvFooBar>>}

\* "80", "8080:80", "127.0.0.1:8080:80", "0", "70000", "8080:notanumber",
\* "4294967296"
Port80 == <<"8","0">>
Port8080to80 == <<"8","0","8","0",":","8","0">>
PortIpMapped ==
    <<"1","2","7",".","0",".","0",".","1",":","8","0","8","0",":","8","0">>
PortZero == <<"0">>
Port70000 == <<"7","0","0","0","0">>
PortNotANumber ==
    <<"8","0","8","0",":","n","o","t","a","n","u","m","b","e","r">>
PortTooWide == <<"4","2","9","4","9","6","7","2","9","6">>

PortEntries ==
    {Port80, Port8080to80, PortIpMapped, PortZero, Port70000,
     PortNotANumber, PortTooWide}

PortLists == {<<>>} \cup {<<p>> : p \in PortEntries} \cup {<<Port8080to80, Port80>>}

PullPolicyFlags == {"", "IfNotPresent", "Always", "Never", "Sometimes"}

\* "", "disk=ssd", "disk=ssd;zone=a", "disk"
NodeSelectorFlags ==
    {<<>>,
     <<"d","i","s","k","=","s","s","d">>,
     <<"d","i","s","k","=","s","s","d",";","z","o","n","e","=","a">>,
     <<"d","i","s","k">>}

\* A service that sets nothing but its image.
PlainService ==
    [image       |-> "nginx",
     command     |-> <<>>,
     cpuShares   |-> 0,
     memLimit    |-> 0,
     privileged  |-> FALSE,
     environment |-> <<>>,
     ports       |-> <<>>,
     restart     |-> ""]

\* Services that differ from the plain one in their restart token and
\* ports, in their environment, or in their resources and privileges.
ServiceRecords ==
    {[PlainService EXCEPT !.restart = t] : t \in RestartTokens}
    \cup {[PlainService EXCEPT !.ports = ps] : ps \in PortLists}
    \cup {[PlainService EXCEPT !.environment = es] : es \in EnvLists}
    \cup {[PlainService EXCEPT !.cpuShares = c, !.memLimit = m,
                               !.privileged = v, !.command = a] :
             c \in {0, 512}, m \in {0, 268435456},
             v \in BOOLEAN, a \in {<<"nginx", "-g">>}}
    \cup {[PlainService EXCEPT !.restart = "unless-stopped", !.ports = ps] :
             ps \in {<<PortNotANumber>>, <<Port8080to80>>}}
    \cup {[PlainService EXCEPT !.restart = "unless-stopped",
                               !.environment = <<EnvNoEquals>>]}

\* The services the flags are varied over.
FewRecords ==
    {[PlainService EXCEPT !.restart = t, !.ports = ps] :
        t \in {"", "no", "unless-stopped"},
        ps \in {<<Port8080to80>>, <<PortNotANumber>>}}

Projects(records) ==
    UNION {[names -> records] : names \in SUBSET ServiceNames}

---------------------------------------------------------------------------
(* The specifications *)

\* flag.Parse and p.Parse have run; both executions are at the loop.
Init ==
    /\ \/ /\ pullPolicy = ""
          /\ nodeSelector = <<>>
          /\ configs \in Projects(ServiceRecords)
       \/ /\ pullPolicy \in PullPolicyFlags
          /\ nodeSelector \in NodeSelectorFlags
          /\ configs \in Projects(FewRecords)
    /\ run = Started(configs)
    /\ rerun = Started(configs)

\* The loop body, for any service not yet visited.
Translate ==
    /\ run.status = "running"
    /\ \E name \in run.pending : run' = Iterate(run, name)
    /\ UNCHANGED <<configs, pullPolicy, nodeSelector, rerun>>

\* The end of the loop.
Exit ==
    /\ run.status = "running"
    /\ run.pending = {}
    /\ run' = Return(run)
    /\ UNCHANGED <<configs, pullPolicy, nodeSelector, rerun>>

Next == Translate \/ Exit

Spec == Init /\ [][Next]_vars

\* The same two steps of the second execution.
TranslateAgain ==
    /\ rerun.status = "running"
    /\ \E name \in rerun.pending : rerun' = Iterate(rerun, name)
    /\ UNCHANGED <<configs, pullPolicy, nodeSelector, run>>

ExitAgain ==
    /\ rerun.status = "running"
    /\ rerun.pending = {}
    /\ rerun' = Return(rerun)
    /\ UNCHANGED <<configs, pullPolicy, nodeSelector, run>>

NextTwice == Translate \/ Exit \/ TranslateAgain \/ ExitAgain

\* Two executions on the same inputs, each visiting the services in an
\* order of its own.
InitTwice ==
    /\ pullPolicy \in {"", "Always"}
    /\ nodeSelector = <<>>
    /\ configs \in Projects(FewRecords)
    /\ run = Started(configs)
    /\ rerun = Started(configs)

SpecTwice == InitTwice /\ [][NextTwice]_vars


---------------------------------------------------------------------------
(* What the claims speak of *)

KindTags == {<<"p","o","d">>, <<"r","c">>, <<"j","o","b">>}

\* <outputDir>/<name>-<kindTag>.yaml
ManifestPath(name, kindTag) ==
    <<"o","u","t","p","u","t","/">> \o name \o <<"-">> \o kindTag
        \o <<".","y","a","m","l">>

\* The files execution r has written for the service called name.
PathsOf(r, name) ==
    {q \in DOMAIN r.files : \E t \in KindTags : q = ManifestPath(name, t)}

\* The manifests execution r has written for the service called name.
ManifestsOf(r, name) == {r.files[p] : p \in PathsOf(r, name)}

\* The services execution r has taken from the loop.
Visited(r) == DOMAIN configs \ r.pending

ContainerOf(manifest) == manifest.template.spec.containers[1]

KnownTokens == {"", "always", "no", "false", "on-failure"}

\* The decision table: token -> <<kind, restart policy>>
TableKind(token) ==
    CASE token \in {"", "always"} -> <<"ReplicationController", "Always">>
      [] token \in {"no", "false"} -> <<"Pod", "Never">>
      [] token = "on-failure"      -> <<"Job", "OnFailure">>

\* C1: a service whose restart token is "" or "always" is emitted as a
\* ReplicationController with restart policy Always, one whose token is
\* "no" or "false" as a Pod with restart policy Never, and one whose token
\* is "on-failure" as a Job with restart policy OnFailure.
C1_KindFollowsTheTable ==
    \A name \in DOMAIN configs : \A m \in ManifestsOf(run, name) :
        configs[name].restart \in KnownTokens =>
            <<m.kind, m.template.spec.restartPolicy>>
                = TableKind(configs[name].restart)

\* C2: every ReplicationController manifest has a selector equal to the
\* labels of its pod template, {"service": name}, and exactly 1 replica.
C2_SelectorMatchesTemplate ==
    \A name \in DOMAIN configs : \A m \in ManifestsOf(run, name) :
        m.kind = "ReplicationController" =>
            /\ m.template.labels = {<<"service", name>>}
            /\ m.selector = m.template.labels
            /\ m.replicas = 1

\* The text of s before its first c, and the text after it.
BeforeFirst(s, c) ==
    SubSeq(s, 1, (CHOOSE k \in DOMAIN s :
                     s[k] = c /\ \A j \in 1..(k - 1) : s[j] # c) - 1)

AfterFirst(s, c) ==
    SubSeq(s, (CHOOSE k \in DOMAIN s :
                  s[k] = c /\ \A j \in 1..(k - 1) : s[j] # c) + 1, Len(s))

\* C3: every environment entry of an emitted service becomes the pair
\* (text before the first "=", all text after the first "="), in the order
\* of the entries, and a service with an entry that holds no "=" fails
\* instead of being emitted.
C3_EnvSplitsAtFirstEquals ==
    \A name \in DOMAIN configs :
        LET entries == configs[name].environment
        IN  \A m \in ManifestsOf(run, name) :
                /\ \A i \in DOMAIN entries : Contains(entries[i], "=")
                /\ ContainerOf(m).env =
                      [i \in DOMAIN entries |->
                          [name  |-> BeforeFirst(entries[i], "="),
                           value |-> AfterFirst(entries[i], "=")]]

\* The final colon-delimited segment of a port entry.
LastSegment(port) == LET parts == Split(port, ":") IN parts[Len(parts)]

\* C4: every port entry of an emitted service becomes the integer value of
\* its final colon-delimited segment, and a service is emitted only if
\* every such segment parses as an integer in 1..65535.
C4_PortIsLastSegmentInRange ==
    \A name \in DOMAIN configs :
        LET entries == configs[name].ports
        IN  \A m \in ManifestsOf(run, name) :
                /\ Len(ContainerOf(m).ports) = Len(entries)
                /\ \A i \in DOMAIN entries :
                      LET p == ParseInt(LastSegment(entries[i]))
                      IN  /\ ~p.err
                          /\ p.n \in 1..65535
                          /\ ContainerOf(m).ports[i].containerPort = p.n

\* The checks the loop body makes before the restart switch all pass.
ReachesRestartSwitch(name) ==
    /\ ~PullPolicySwitch(pullPolicy).fatal
    /\ ~NodeSelectorMap(nodeSelector).panic
    /\ ~EnvironmentLoop(configs[name].environment, 1, <<>>).panic
    /\ ~PortsLoop(configs[name].ports, 1, <<>>).fatal

\* C5 as claimed: a visited service whose restart token is unknown has
\* ended the run in the unknown-restart-policy error, and has no manifest.
C5_UnknownTokenAlwaysThatError ==
    \A name \in Visited(run) :
        configs[name].restart \notin KnownTokens =>
            /\ run.status = "exit1"
            /\ run.msg = "Unknown restart policy"
            /\ run.failed = {name}
            /\ ManifestsOf(run, name) = {}

\* C5, amended: a service whose restart token is unknown never has a
\* manifest written; once visited it has ended the run, and in the
\* unknown-restart-policy error whenever the checks that come before the
\* restart switch pass for it.
C5_UnknownTokenIsNeverEmitted ==
    \A name \in DOMAIN configs :
        configs[name].restart \notin KnownTokens =>
            /\ ManifestsOf(run, name) = {}
            /\ name \in Visited(run) =>
                  /\ run.status \in {"exit1", "exit2"}
                  /\ run.failed = {name}
                  /\ ReachesRestartSwitch(name) =>
                        /\ run.status = "exit1"
                        /\ run.msg = "Unknown restart policy"

C5_Witness ==
    /\ run.status = "exit1"
    /\ run.msg = "Unknown restart policy"
    /\ \E name \in run.failed :
          /\ configs[name].restart = "unless-stopped"
          /\ ManifestsOf(run, name) = {}


\* C6: the run ends at the first service whose translation fails: the
\* failing step writes nothing, no manifest exists for the failing service
\* or for a service not yet visited, nothing happens after the failure,
\* and no step removes or changes a manifest already written.
C6_RunEndsAtFirstFailure ==
    [][/\ run.failed # {} => run' = run
       /\ run'.failed # {} =>
             /\ run'.status \in {"exit1", "exit2"}
             /\ run'.files = run.files
             /\ \A name \in run'.failed \cup run'.pending :
                   ManifestsOf(run', name) = {}
       /\ \A p \in DOMAIN run.files :
             p \in DOMAIN run'.files /\ run'.files[p] = run.files[p]]_vars

C6_Witness ==
    /\ run.status \in {"exit1", "exit2"}
    /\ run.failed # {}
    /\ \E name \in Visited(run) \ run.failed : ManifestsOf(run, name) # {}
    /\ \A name \in run.failed : ManifestsOf(run, name) = {}

\* C7: at every point at most one manifest is written per service, each
\* under <name>-<kindTag> with kindTag in {pod, rc, job} and for a service
\* of the input; when the run completes without error exactly one is
\* written for every service.
C7_OneManifestPerService ==
    /\ \A name \in DOMAIN configs : Cardinality(PathsOf(run, name)) <= 1
    /\ DOMAIN run.files \subseteq
          {ManifestPath(name, t) : name \in Visited(run), t \in KindTags}
    /\ run.status = "exit0" =>
          /\ \A name \in DOMAIN configs : Cardinality(PathsOf(run, name)) = 1
          /\ Cardinality(DOMAIN run.files) = Cardinality(DOMAIN configs)

C7_Witness ==
    /\ run.status = "exit0"
    /\ Cardinality(DOMAIN configs) = MaxServices
    /\ Cardinality(DOMAIN run.files) = MaxServices
    /\ \E a, b \in DOMAIN configs : configs[a].restart # configs[b].restart

\* C8: with an empty pull-policy flag no container gets a pull policy and
\* no pull-policy error occurs; with "IfNotPresent", "Always" or "Never"
\* every container gets exactly that policy; with any other flag the first
\* service visited fails in the unknown-pull-policy error and nothing is
\* ever written.
C8_PullPolicyAsymmetry ==
    /\ pullPolicy = "" =>
          /\ run.msg # "Unknown pull policy"
          /\ \A p \in DOMAIN run.files :
                ContainerOf(run.files[p]).imagePullPolicy = ""
    /\ pullPolicy \in {"IfNotPresent", "Always", "Never"} =>
          /\ run.msg # "Unknown pull policy"
          /\ \A p \in DOMAIN run.files :
                ContainerOf(run.files[p]).imagePullPolicy = pullPolicy
    /\ pullPolicy \notin {"", "IfNotPresent", "Always", "Never"} =>
          /\ DOMAIN run.files = {}
          /\ Visited(run) # {} =>
                /\ run.status = "exit1"
                /\ run.msg = "Unknown pull policy"
                /\ run.failed = Visited(run)

C8_Witness ==
    /\ pullPolicy = "Sometimes"
    /\ run.status = "exit1"
    /\ run.msg = "Unknown pull policy"
    /\ run.pending # {}

\* C9: the limits of an emitted container hold a cpu entry exactly when
\* the service's CPU share count is nonzero and a memory entry exactly
\* when its memory limit is nonzero, no other entry, and no entry of
\* quantity zero.
C9_LimitsOnlyForSetResources ==
    \A name \in DOMAIN configs : \A m \in ManifestsOf(run, name) :
        LET limits == ContainerOf(m).limits
        IN  /\ MapKeys(limits) =
                  {k \in {"cpu"} : configs[name].cpuShares # 0}
                  \cup {k \in {"memory"} : configs[name].memLimit # 0}
            /\ Cardinality(limits) = Cardinality(MapKeys(limits))
            /\ \A e \in limits : e[2].value # 0

C9_Witness ==
    \E name \in DOMAIN configs : \E m \in ManifestsOf(run, name) :
        /\ configs[name].cpuShares = 0
        /\ configs[name].memLimit # 0
        /\ MapKeys(ContainerOf(m).limits) = {"memory"}

\* C10 as claimed: two runs on the same services and configuration end
\* with the same manifests written, whatever order each visits the
\* services in.
C10_AnyOrderSameOutcome ==
    (run.status # "running" /\ rerun.status # "running") =>
        run.files = rerun.files

\* C10, amended: the content of a manifest does not depend on the order,
\* and a run ends without error in one order exactly when it does in
\* every order, and then with the same manifests written; when a service
\* fails, which of the others are written depends on the order.
C10_SameOutcomeWithoutFailure ==
    /\ \A p \in DOMAIN run.files \cap DOMAIN rerun.files :
          run.files[p] = rerun.files[p]
    /\ (run.status = "exit0" /\ rerun.status # "running") =>
          /\ rerun.status = "exit0"
          /\ run.files = rerun.files

C10_Witness ==
    /\ run.status = "exit0"
    /\ rerun.status = "exit0"
    /\ Len(run.stdout) = MaxServices
    /\ run.stdout # rerun.stdout
    /\ run.files = rerun.files

============================================================================
